---------------------------- MODULE Spec2Model ----------------------------
(***************************************************************************)
(* Model of the spectral detection engine of finderminer:                  *)
(*   src/src/signal_processor.py  SignalProcessor                          *)
(* One controller thread (the Tk main thread of src/src/gui.py) calls the  *)
(* public methods of one SignalProcessor; every successful                 *)
(* start_processing creates one loop thread running _processing_loop.      *)
(* Python statements are the atomic steps: a method is cut at every        *)
(* statement that reads or writes a field another thread can see.          *)
(***************************************************************************)
EXTENDS Integers, Sequences, FiniteSets, TLC

(* ------------------------------ bounds --------------------------------- *)
\* loop threads that can be created in one behaviour
MaxThreads == 2
\* RtlSdr handles that can be opened in one behaviour
MaxHandles == 2
\* DetectionEvents that can be created in one behaviour
MaxEvents == 2

\* bins of the spectra the peak detector is applied to exhaustively
SpectrumLen == 5

(* ----------------------------- constants ------------------------------- *)
\* scipy.signal.find_peaks(..., distance=20)
PeakDistance == 20

\* the controller threads; only the Tk main thread calls the engine
Controllers == {"gui"}

\* threads that call the public methods of SignalProcessor: the program's
\* Tk thread and, as the methods take no lock and test no caller, one more
Callers == Controllers \cup {"other"}

\* values start_processing can get as its callback argument (None or a sink)
NoCallback == "None"
Callbacks == {NoCallback, "sink"}

\* a call that has not returned yet has no return value
NoReturn == "pending"

\* config['alert']['threshold']['power'] values the model is run with
Thresholds == {2}

\* the dB power per FFT bin (in FFT order) of the sample blocks read_samples
\* can return: silence, and a tone in one bin
Blocks == { <<0, 0, 0, 0, 0>>, <<0, 5, 0, 0, 0>> }

VARIABLES
  sdr,               \* self.sdr: 0 is None, else the handle
  running,           \* self.running
  processing_thread, \* self.processing_thread: 0 is None, else the thread
  callback,          \* self.callback
  detected_signals,  \* self.detected_signals
  threshold,         \* self.config['alert']['threshold']['power']
  opened,            \* number of RtlSdr() handles opened so far
  closed,            \* the handles close() was called on
  threads,           \* the loop threads created so far, in order of creation
  ctl,               \* each controller thread: its position and last result
  clock,             \* datetime.now(): the number of events created so far
  phase              \* history of the monitor: "fresh"; "started" since
                     \* line 54 of a start; "source_error", "sink_error"
                     \* since the loop logged that error and ended the run
                     \* (lines 86-89); "stopped" since a stop returned
VARIABLES
  monitoring,        \* DetectorGUI.monitoring
  np_random          \* the global numpy generator: the number of noise
                     \* vectors np.random.normal has drawn so far (modulo
                     \* the period of the model's stream)

vars == << sdr, running, processing_thread, callback, detected_signals,
           threshold, opened, closed, threads, ctl, clock, phase,
           monitoring, np_random >>

(* --------------------------- pure functions ---------------------------- *)
Max(a, b) == IF a >= b THEN a ELSE b

RECURSIVE SumSeq(_)
SumSeq(s) == IF s = <<>> THEN 0 ELSE Head(s) + SumSeq(Tail(s))

\* the elements of a set of integers in increasing order
RECURSIVE SortedSeq(_)
SortedSeq(S) ==
  IF S = {} THEN <<>>
  ELSE LET m == CHOOSE x \in S : \A y \in S : x <= y
       IN  <<m>> \o SortedSeq(S \ {m})

\* np.fft.fftshift: the zero-frequency bin moves to index n \div 2 (0-based)
FftShift(x) ==
  LET n == Len(x)
  IN  [i \in 1..n |-> x[((i - 1 - (n \div 2)) % n) + 1]]

\* np.fft.fftfreq(n, 1/sample_rate) in units of sample_rate/n:
\* 0, 1, ..., (n-1) \div 2, -(n \div 2), ..., -1
FftFreq(n) ==
  [i \in 1..n |-> IF i - 1 <= (n - 1) \div 2 THEN i - 1 ELSE i - 1 - n]

\* _compute_fft: the block stands for 20*log10(|fft(samples*window)|) per
\* bin; the power is center-shifted, the frequency axis is fftfreq as is
ComputeFft(block) ==
  [power |-> FftShift(block), frequencies |-> FftFreq(Len(block))]

\* scipy _local_maxima_1d: the midpoints of the plateaus that are strictly
\* higher than both neighbours; the first and last sample are never peaks
LocalMaxima(x) ==
  { m \in 2..(Len(x) - 1) :
      \E l \in 2..m, r \in m..(Len(x) - 1) :
         /\ \A k \in l..r : x[k] = x[l]
         /\ x[l - 1] < x[l]
         /\ x[r + 1] < x[l]
         /\ m = (l + r) \div 2 }

\* scipy _select_by_peak_distance: from the highest priority down (of equal
\* priorities the later peak first), a kept peak removes every peak closer
\* than distance
RECURSIVE SelectByPeakDistance(_, _, _)
SelectByPeakDistance(x, cand, distance) ==
  IF cand = {} THEN {}
  ELSE LET j == CHOOSE p \in cand :
                  \A q \in cand : x[q] < x[p] \/ (x[q] = x[p] /\ q <= p)
           rest == { q \in cand : q # j /\ ~(Max(q - j, j - q) < distance) }
       IN  {j} \cup SelectByPeakDistance(x, rest, distance)

\* signal.find_peaks(power, height=threshold, distance=20)[0]
FindPeaks(x, height, distance) ==
  SortedSeq(SelectByPeakDistance(x,
              { p \in LocalMaxima(x) : x[p] >= height }, distance))

\* _calculate_confidence without the min/max of line 142
CalculateConfidenceUnclamped(peak_powers, th) ==
  LET n == Len(peak_powers)
  IN  << SumSeq(peak_powers) - n * th, n * (IF th < 0 THEN -th ELSE th) >>

\* _calculate_confidence dividing by threshold instead of abs(threshold):
\* with a negative threshold the quotient of a mean above it is negative
CalculateConfidenceNoAbs(peak_powers, th) ==
  LET n   == Len(peak_powers)
      num == SumSeq(peak_powers) - n * th
      den == n * th
  IN  IF num <= 0 \/ den < 0 THEN <<0, 1>>
      ELSE IF num >= den THEN <<1, 1>>
      ELSE <<num, den>>

\* _calculate_confidence: (mean - threshold) / abs(threshold) clamped to
\* [0, 1], as the fraction <<numerator, denominator>>
CalculateConfidence(peak_powers, th) ==
  LET n   == Len(peak_powers)
      num == SumSeq(peak_powers) - n * th
      den == n * (IF th < 0 THEN -th ELSE th)
  IN  IF num <= 0 THEN <<0, 1>>
      ELSE IF num >= den THEN <<1, 1>>
      ELSE <<num, den>>

\* no spectrum yet
NoSpectrum == [power |-> <<>>, frequencies |-> <<>>]

\* None as the value of `detected`
NoEvent ==
  [timestamp |-> 0, frequencies |-> <<>>, powers |-> <<>>,
   confidence |-> <<0, 1>>]

\* the detection record _analyze_signal builds from the peaks found
Detection(fft_result, peaks, th, now) ==
  [timestamp   |-> now,
   frequencies |-> [i \in 1..Len(peaks) |-> fft_result.frequencies[peaks[i]]],
   powers      |-> [i \in 1..Len(peaks) |-> fft_result.power[peaks[i]]],
   confidence  |-> CalculateConfidence(
                     [i \in 1..Len(peaks) |-> fft_result.power[peaks[i]]],
                     th)]

\* _analyze_signal with line 119 as `if len(peaks) >= 0`
AnalyzeSignalAlways(fft_result, th, now) ==
  Detection(fft_result, FindPeaks(fft_result.power, th, PeakDistance), th, now)

\* _analyze_signal: the detection record, or None without peaks (peaks is
\* bound to the value find_peaks returned)
AnalyzeSignal(fft_result, th, now) ==
  CHOOSE detection \in
    { IF Len(peaks) > 0
      THEN Detection(fft_result, peaks, th, now)
      ELSE NoEvent :
        peaks \in { FindPeaks(fft_result.power, th, PeakDistance) } } : TRUE

\* the blocks whose analysis finds no peak
QuietBlocks(th) ==
  { b \in Blocks :
      \E fft_result \in { ComputeFft(b) } :
         AnalyzeSignal(fft_result, th, 1) = NoEvent }

(* ------------------------------ state ---------------------------------- *)
\* a loop thread: pc is its position in _processing_loop,
\*   "new" created, not started      "check"   line 72
\*   "read" line 75, before the call "reading" inside read_samples
\*   "analyze" lines 78-81           "test"    line 83
\*   "call" line 84, before the call "insink"  inside the callback
\*   "except" lines 86-89            "exit"    after the loop
\*   "done" the thread has terminated
\* h the handle read_samples was called on, block the samples read, detected
\* the local of that name, cb the callback called, raised the exception on
\* its way to line 86,
\* appended/delivered the timestamps of the events this thread stored and
\* passed to the sink
NewThread ==
  [pc |-> "new", h |-> 0, block |-> <<>>, detected |-> NoEvent,
   cb |-> NoCallback, raised |-> "none",
   appended |-> <<>>, delivered |-> <<>>]

\* a controller thread: pc is "idle" between two calls, else the line of
\* the method it is about to execute; cb is the argument of
\* start_processing, j the thread join() was called on, wasIdle whether the
\* monitor was idle when stop_processing was called
\* view: contents of the list get_detected_signals returned to the caller,
\* as they were when it returned
\* sim: the spectrum simulate_miner_signal last returned to the caller
\* (gui.simulate_signal keeps it on the plot)
\* toggle: the engine call gui.toggle_monitoring has reached ("none" outside
\* toggle_monitoring), ret: what that call returned (NoReturn until it has)
IdleCtl == [pc |-> "idle", cb |-> NoCallback, j |-> 0, wasIdle |-> FALSE,
            view |-> <<>>, sim |-> NoSpectrum, toggle |-> "none",
            ret |-> NoReturn]

ThreadIds == 1..Len(threads)

Alive(t) == threads[t].pc \notin {"new", "done"}

\* inside the loop body or about to test the loop condition
InLoop(t) ==
  threads[t].pc \in {"check", "read", "reading", "analyze", "test", "call",
                     "insink", "except"}

Idle == ~running /\ \A t \in ThreadIds : threads[t].pc \in {"exit", "done"}

Init ==
  /\ sdr = 0
  /\ running = FALSE
  /\ processing_thread = 0
  /\ callback = NoCallback
  /\ detected_signals = <<>>
  /\ threshold \in Thresholds
  /\ opened = 0
  /\ closed = {}
  /\ threads = <<>>
  /\ ctl = [c \in Callers |-> IdleCtl]
  /\ clock = 0
  /\ phase = "fresh"
  /\ monitoring = FALSE
  /\ np_random = 0

\* thread t exists and is at position pc
At(t, pc) == t \in ThreadIds /\ threads[t].pc = pc

\* a thread record with some fields changed
SetThread(t, upd) ==
  [threads EXCEPT ![t] = [f \in DOMAIN threads[t] |->
                            IF f \in DOMAIN upd THEN upd[f] ELSE threads[t][f]]]

\* a controller returns from a method; its locals die
\* the call returns v ("raised": an exception leaves it); the value is
\* kept for toggle_monitoring when the call was made by it
Returns(c, v) ==
  [ctl EXCEPT ![c] = [IdleCtl EXCEPT !.sim = ctl[c].sim,
                                     !.toggle = ctl[c].toggle,
                                     !.ret = IF ctl[c].toggle = "none"
                                             THEN NoReturn ELSE v]]

Return(c) == Returns(c, "None")

Goto(c, pc) == [ctl EXCEPT ![c].pc = pc]

(* ----------------------- _processing_loop (70-89) ---------------------- *)
\* line 72: while self.running
LoopCheck(t) ==
  /\ At(t, "check")
  /\ threads' = SetThread(t, [pc |-> IF running THEN "read" ELSE "exit"])
  /\ UNCHANGED << sdr, running, processing_thread, callback,
                  detected_signals, threshold, opened, closed, ctl, clock,
                  phase >>
  /\ UNCHANGED << monitoring, np_random >>

\* line 75: self.sdr is evaluated and read_samples is entered; on None the
\* attribute access raises
ReadBegin(t) ==
  /\ At(t, "read")
  /\ threads' = IF sdr = 0
                THEN SetThread(t, [pc |-> "except", raised |-> "source"])
                ELSE SetThread(t, [pc |-> "reading", h |-> sdr])
  /\ UNCHANGED << sdr, running, processing_thread, callback,
                  detected_signals, threshold, opened, closed, ctl, clock,
                  phase >>
  /\ UNCHANGED << monitoring, np_random >>

\* events already promised by blocks that were read and not yet analysed
PendingEvents ==
  Cardinality({ t \in ThreadIds : /\ threads[t].pc = "analyze"
                                  /\ threads[t].block \notin
                                       QuietBlocks(threshold) })

\* what read_samples can return: a block (one with peaks only while the
\* event budget lasts)
ReadableBlocks ==
  IF clock + PendingEvents < MaxEvents THEN Blocks
  ELSE QuietBlocks(threshold)

\* line 75: read_samples returns a block
ReadReturn(t) ==
  /\ At(t, "reading")
  /\ \E b \in ReadableBlocks :
       threads' = SetThread(t, [pc |-> "analyze", h |-> 0, block |-> b])
  /\ UNCHANGED << sdr, running, processing_thread, callback,
                  detected_signals, threshold, opened, closed, ctl, clock,
                  phase >>
  /\ UNCHANGED << monitoring, np_random >>

\* line 75: read_samples raises (device error; a closed handle)
ReadRaise(t) ==
  /\ At(t, "reading")
  /\ threads' = SetThread(t, [pc |-> "except", h |-> 0, raised |-> "source"])
  /\ UNCHANGED << sdr, running, processing_thread, callback,
                  detected_signals, threshold, opened, closed, ctl, clock,
                  phase >>
  /\ UNCHANGED << monitoring, np_random >>

\* lines 78-81 with a detection equal in peaks to the last stored one
\* dropped instead of appended
AnalyzeDeduplicating(t) ==
  /\ At(t, "analyze")
  /\ LET detected == AnalyzeSignal(ComputeFft(threads[t].block), threshold,
                                   clock + 1)
         last == IF detected_signals = <<>> THEN NoEvent
                 ELSE detected_signals[Len(detected_signals)]
     IN  IF detected # NoEvent /\ ~( /\ last.frequencies = detected.frequencies
                                     /\ last.powers = detected.powers )
         THEN /\ detected_signals' = Append(detected_signals, detected)
              /\ clock' = clock + 1
              /\ threads' = SetThread(t,
                   [pc |-> "test", block |-> <<>>, detected |-> detected,
                    appended |-> Append(threads[t].appended,
                                        detected.timestamp)])
         ELSE /\ threads' = SetThread(t, [pc |-> "test", block |-> <<>>,
                                          detected |-> NoEvent])
              /\ UNCHANGED << detected_signals, clock >>
  /\ UNCHANGED << sdr, running, processing_thread, callback, threshold,
                  opened, closed, ctl, phase >>
  /\ UNCHANGED << monitoring, np_random >>

\* line 83 with the loop condition tested again before the callback
TestCallbackCancellable(t) ==
  /\ At(t, "test")
  /\ threads' = IF ~running
                THEN SetThread(t, [pc |-> "exit", detected |-> NoEvent])
                ELSE IF threads[t].detected # NoEvent /\ callback # NoCallback
                THEN SetThread(t, [pc |-> "call"])
                ELSE SetThread(t, [pc |-> "check", detected |-> NoEvent])
  /\ UNCHANGED << sdr, running, processing_thread, callback,
                  detected_signals, threshold, opened, closed, ctl, clock,
                  phase >>
  /\ UNCHANGED << monitoring, np_random >>

\* line 83 testing only the detection, and line 84 never reached
TestCallbackSkipping(t) ==
  /\ At(t, "test")
  /\ threads' = SetThread(t, [pc |-> "check", detected |-> NoEvent])
  /\ UNCHANGED << sdr, running, processing_thread, callback,
                  detected_signals, threshold, opened, closed, ctl, clock,
                  phase >>
  /\ UNCHANGED << monitoring, np_random >>

\* lines 86-89 as a retry: the error is logged and the loop goes on
ExceptRetrying(t) ==
  /\ At(t, "except")
  /\ threads' = SetThread(t, [pc |-> "check", detected |-> NoEvent,
                                raised |-> "none"])
  /\ phase' = IF threads[t].raised = "sink" THEN "sink_error"
               ELSE "source_error"
  /\ UNCHANGED << sdr, running, processing_thread, callback,
                  detected_signals, threshold, opened, closed, ctl, clock >>
  /\ UNCHANGED << monitoring, np_random >>

\* lines 78-81 with the detection stored only when a callback is registered
AnalyzeNeedsSink(t) ==
  /\ At(t, "analyze")
  /\ \E fft_result \in { ComputeFft(threads[t].block) } :
     \E detected \in { AnalyzeSignal(fft_result, threshold, clock + 1) } :
         IF detected # NoEvent /\ callback # NoCallback
         THEN /\ detected_signals' = Append(detected_signals, detected)
              /\ clock' = clock + 1
              /\ threads' = SetThread(t,
                   [pc |-> "test", block |-> <<>>, detected |-> detected,
                    appended |-> Append(threads[t].appended,
                                        detected.timestamp)])
         ELSE /\ threads' = SetThread(t, [pc |-> "test", block |-> <<>>,
                                          detected |-> detected])
              /\ UNCHANGED << detected_signals, clock >>
  /\ UNCHANGED << sdr, running, processing_thread, callback, threshold,
                  opened, closed, ctl, phase >>
  /\ UNCHANGED << monitoring, np_random >>

\* lines 78-81: _compute_fft, then _analyze_signal, which appends the
\* detection record to self.detected_signals
Analyze(t) ==
  /\ At(t, "analyze")
  /\ \E fft_result \in { ComputeFft(threads[t].block) } :
     \E detected \in { AnalyzeSignal(fft_result, threshold, clock + 1) } :
         IF detected # NoEvent
         THEN /\ detected_signals' = Append(detected_signals, detected)
              /\ clock' = clock + 1
              /\ threads' = SetThread(t,
                   [pc |-> "test", block |-> <<>>, detected |-> detected,
                    appended |-> Append(threads[t].appended,
                                        detected.timestamp)])
         ELSE /\ threads' = SetThread(t, [pc |-> "test", block |-> <<>>,
                                          detected |-> NoEvent])
              /\ UNCHANGED << detected_signals, clock >>
  /\ UNCHANGED << sdr, running, processing_thread, callback, threshold,
                  opened, closed, ctl, phase >>
  /\ UNCHANGED << monitoring, np_random >>

\* line 83: if detected and self.callback
TestCallback(t) ==
  /\ At(t, "test")
  /\ threads' = IF threads[t].detected # NoEvent /\ callback # NoCallback
                THEN SetThread(t, [pc |-> "call"])
                ELSE SetThread(t, [pc |-> "check", detected |-> NoEvent])
  /\ UNCHANGED << sdr, running, processing_thread, callback,
                  detected_signals, threshold, opened, closed, ctl, clock,
                  phase >>
  /\ UNCHANGED << monitoring, np_random >>

\* line 84: self.callback is evaluated again and called with detected
CallCallback(t) ==
  /\ At(t, "call")
  /\ threads' = IF callback = NoCallback
                THEN SetThread(t, [pc |-> "except", raised |-> "sink"])
                ELSE SetThread(t,
                       [pc |-> "insink", cb |-> callback,
                        delivered |-> Append(threads[t].delivered,
                                             threads[t].detected.timestamp)])
  /\ UNCHANGED << sdr, running, processing_thread, callback,
                  detected_signals, threshold, opened, closed, ctl, clock,
                  phase >>
  /\ UNCHANGED << monitoring, np_random >>

\* line 84: the callback returns
SinkReturn(t) ==
  /\ At(t, "insink")
  /\ threads' = SetThread(t, [pc |-> "check", detected |-> NoEvent,
                                cb |-> NoCallback])
  /\ UNCHANGED << sdr, running, processing_thread, callback,
                  detected_signals, threshold, opened, closed, ctl, clock,
                  phase >>
  /\ UNCHANGED << monitoring, np_random >>

\* line 84: the callback raises
SinkRaise(t) ==
  /\ At(t, "insink")
  /\ threads' = SetThread(t, [pc |-> "except", cb |-> NoCallback,
                                raised |-> "sink"])
  /\ UNCHANGED << sdr, running, processing_thread, callback,
                  detected_signals, threshold, opened, closed, ctl, clock,
                  phase >>
  /\ UNCHANGED << monitoring, np_random >>

\* lines 86-89: any exception of the loop body is logged, running is
\* cleared and the loop is left
Except(t) ==
  /\ At(t, "except")
  /\ threads' = SetThread(t, [pc |-> "exit", detected |-> NoEvent,
                                raised |-> "none"])
  /\ phase' = IF threads[t].raised = "sink" THEN "sink_error"
               ELSE "source_error"
  /\ running' = FALSE
  /\ UNCHANGED << sdr, processing_thread, callback, detected_signals,
                  threshold, opened, closed, ctl, clock >>
  /\ UNCHANGED << monitoring, np_random >>

\* the thread function returns: the thread is no longer alive, and the
\* history kept for it is dropped
ThreadExit(t) ==
  /\ At(t, "exit")
  /\ threads' = SetThread(t, [pc |-> "done", appended |-> <<>>,
                                delivered |-> <<>>])
  /\ UNCHANGED << sdr, running, processing_thread, callback,
                  detected_signals, threshold, opened, closed, ctl, clock,
                  phase >>
  /\ UNCHANGED << monitoring, np_random >>

Loop(t) ==
  \/ LoopCheck(t)
  \/ ReadBegin(t)
  \/ ReadReturn(t)
  \/ ReadRaise(t)
  \/ Analyze(t)
  \/ TestCallback(t)
  \/ CallCallback(t)
  \/ SinkReturn(t)
  \/ SinkRaise(t)
  \/ Except(t)
  \/ ThreadExit(t)

(* -------------------- start_processing (49-59) ------------------------- *)
\* threads that exist or are about to be created by a call past line 52
PendingThreads ==
  Len(threads)
    + Cardinality({ d \in Callers :
                      ctl[d].pc \in {"start54", "start55", "start56"} })

\* start_processing without the test of line 51
StartCallUnguarded(c, cb) ==
  /\ ctl[c].pc = "idle"
  /\ PendingThreads < MaxThreads
  /\ ctl' = [ctl EXCEPT ![c] = [@ EXCEPT !.cb = cb, !.pc = "start54"]]
  /\ UNCHANGED << sdr, running, processing_thread, callback,
                  detected_signals, threshold, opened, closed, threads,
                  clock, phase >>
  /\ UNCHANGED << monitoring, np_random >>

\* lines 51-52: the call with callback cb; False when already running
StartCall(c, cb) ==
  /\ ctl[c].pc = "idle"
  /\ running \/ PendingThreads < MaxThreads
  /\ ctl' = [ctl EXCEPT ![c] = [@ EXCEPT !.cb = cb,
                 !.pc = IF running THEN "start52" ELSE "start54"]]
  /\ UNCHANGED << sdr, running, processing_thread, callback,
                  detected_signals, threshold, opened, closed, threads,
                  clock, phase >>
  /\ UNCHANGED << monitoring, np_random >>

\* line 52: return False
StartReturnFalse(c) ==
  /\ ctl[c].pc = "start52"
  /\ ctl' = Returns(c, "False")
  /\ UNCHANGED << sdr, running, processing_thread, callback,
                  detected_signals, threshold, opened, closed, threads,
                  clock, phase >>
  /\ UNCHANGED << monitoring, np_random >>

\* line 54: self.running = True
StartSetRunning(c) ==
  /\ ctl[c].pc = "start54"
  /\ running' = TRUE
  /\ phase' = "started"
  /\ ctl' = Goto(c, "start55")
  /\ UNCHANGED << sdr, processing_thread, callback, detected_signals,
                  threshold, opened, closed, threads, clock >>
  /\ UNCHANGED << monitoring, np_random >>

\* line 55: self.callback = callback
StartSetCallback(c) ==
  /\ ctl[c].pc = "start55"
  /\ callback' = ctl[c].cb
  /\ ctl' = Goto(c, "start56")
  /\ UNCHANGED << sdr, running, processing_thread, detected_signals,
                  threshold, opened, closed, threads, clock, phase >>
  /\ UNCHANGED << monitoring, np_random >>

\* lines 56-57: self.processing_thread = threading.Thread(...)
StartCreateThread(c) ==
  /\ ctl[c].pc = "start56"
  /\ threads' = Append(threads, NewThread)
  /\ processing_thread' = Len(threads) + 1
  /\ ctl' = Goto(c, "start58")
  /\ UNCHANGED << sdr, running, callback, detected_signals, threshold,
                  opened, closed, clock, phase >>
  /\ UNCHANGED << monitoring, np_random >>

\* line 58: self.processing_thread.start(); start() raises RuntimeError on
\* a thread that was started before (the field then holds the thread of
\* another caller), and the error leaves start_processing
StartThread(c) ==
  /\ ctl[c].pc = "start58"
  /\ threads' = IF threads[processing_thread].pc = "new"
                THEN SetThread(processing_thread, [pc |-> "check"])
                ELSE threads
  /\ ctl' = IF threads[processing_thread].pc = "new"
            THEN Goto(c, "start59")
            ELSE Returns(c, "raised")
  /\ UNCHANGED << sdr, running, processing_thread, callback,
                  detected_signals, threshold, opened, closed, clock,
                  phase >>
  /\ UNCHANGED << monitoring, np_random >>

\* line 59: return True
StartReturnTrue(c) ==
  /\ ctl[c].pc = "start59"
  /\ ctl' = Returns(c, "True")
  /\ UNCHANGED << sdr, running, processing_thread, callback,
                  detected_signals, threshold, opened, closed, threads,
                  clock, phase >>
  /\ UNCHANGED << monitoring, np_random >>

(* --------------------- stop_processing (61-68) ------------------------- *)
\* line 63 written as a toggle: self.running = not self.running
StopCallToggles(c) ==
  /\ ctl[c].pc = "idle"
  /\ running' = ~running
  /\ ctl' = [ctl EXCEPT ![c] = [@ EXCEPT !.pc = "stop64", !.wasIdle = Idle]]
  /\ UNCHANGED << sdr, processing_thread, callback, detected_signals,
                  threshold, opened, closed, threads, clock, phase >>
  /\ UNCHANGED << monitoring, np_random >>

\* stop_processing without line 63: the flag is left as it is
StopCallKeepsRunning(c) ==
  /\ ctl[c].pc = "idle"
  /\ ctl' = [ctl EXCEPT ![c] = [@ EXCEPT !.pc = "stop64", !.wasIdle = Idle]]
  /\ UNCHANGED << sdr, running, processing_thread, callback,
                  detected_signals, threshold, opened, closed, threads,
                  clock, phase >>
  /\ UNCHANGED << monitoring, np_random >>

\* line 65 without the wait: stop_processing goes on while the thread runs
StopJoinNoWait(c) ==
  /\ ctl[c].pc = "join"
  /\ ctl' = Goto(c, "stop66")
  /\ UNCHANGED << sdr, running, processing_thread, callback,
                  detected_signals, threshold, opened, closed, threads,
                  clock, phase >>
  /\ UNCHANGED << monitoring, np_random >>

\* line 63: self.running = False
StopCall(c) ==
  /\ ctl[c].pc = "idle"
  /\ running' = FALSE
  /\ ctl' = [ctl EXCEPT ![c] = [@ EXCEPT !.pc = "stop64", !.wasIdle = Idle]]
  /\ UNCHANGED << sdr, processing_thread, callback, detected_signals,
                  threshold, opened, closed, threads, clock, phase >>
  /\ UNCHANGED << monitoring, np_random >>

\* lines 64-65: if self.processing_thread: join() is entered on it; join()
\* raises RuntimeError on a thread that was not started
StopJoinBegin(c) ==
  /\ ctl[c].pc = "stop64"
  /\ ctl' = IF processing_thread = 0 THEN Goto(c, "stop66")
            ELSE IF threads[processing_thread].pc = "new"
            THEN Goto(c, "stop_raised")
            ELSE [ctl EXCEPT ![c] = [@ EXCEPT !.pc = "join",
                                              !.j = processing_thread]]
  /\ UNCHANGED << sdr, running, processing_thread, callback,
                  detected_signals, threshold, opened, closed, threads,
                  clock, phase >>
  /\ UNCHANGED << monitoring, np_random >>

\* line 65: join() returns once the thread has terminated
StopJoin(c) ==
  /\ ctl[c].pc = "join"
  /\ threads[ctl[c].j].pc = "done"
  /\ ctl' = Goto(c, "stop66")
  /\ UNCHANGED << sdr, running, processing_thread, callback,
                  detected_signals, threshold, opened, closed, threads,
                  clock, phase >>
  /\ UNCHANGED << monitoring, np_random >>

\* line 65: the RuntimeError of join() leaves stop_processing (join() meets
\* an unstarted thread only when a second thread calls the engine, so the
\* one-controller Next below does not take this step)
StopRaise(c) ==
  /\ ctl[c].pc = "stop_raised"
  /\ ctl' = Returns(c, "raised")
  /\ UNCHANGED << sdr, running, processing_thread, callback,
                  detected_signals, threshold, opened, closed, threads,
                  clock, phase >>
  /\ UNCHANGED << monitoring, np_random >>

\* stop_processing without the close() of line 67
StopCloseForgets(c) ==
  /\ ctl[c].pc = "stop66"
  /\ IF sdr = 0
     THEN /\ ctl' = Return(c)
          /\ phase' = "stopped"
     ELSE /\ ctl' = Goto(c, "stop68")
          /\ UNCHANGED phase
  /\ UNCHANGED << sdr, running, processing_thread, callback,
                  detected_signals, threshold, opened, closed, threads,
                  clock >>
  /\ UNCHANGED << monitoring, np_random >>

\* lines 66-67: if self.sdr: self.sdr.close(); without a handle the method
\* returns
StopClose(c) ==
  /\ ctl[c].pc = "stop66"
  /\ IF sdr = 0
     THEN /\ ctl' = Return(c)
          /\ phase' = "stopped"
          /\ UNCHANGED closed
     ELSE /\ closed' = closed \cup {sdr}
          /\ ctl' = Goto(c, "stop68")
          /\ UNCHANGED phase
  /\ UNCHANGED << sdr, running, processing_thread, callback,
                  detected_signals, threshold, opened, threads, clock >>
  /\ UNCHANGED << monitoring, np_random >>

\* line 68: self.sdr = None, and the method returns
StopClear(c) ==
  /\ ctl[c].pc = "stop68"
  /\ sdr' = 0
  /\ ctl' = Return(c)
  /\ phase' = "stopped"
  /\ UNCHANGED << running, processing_thread, callback, detected_signals,
                  threshold, opened, closed, threads, clock >>
  /\ UNCHANGED << monitoring, np_random >>

(* ---------------------- initialize_sdr (25-36) ------------------------- *)
\* line 29: RtlSdr() raises: the error is logged, False is returned
InitOpenFail(c) ==
  /\ ctl[c].pc = "idle"
  /\ ctl' = Returns(c, "False")
  /\ UNCHANGED << sdr, running, processing_thread, callback,
                  detected_signals, threshold, opened, closed, threads,
                  clock, phase >>
  /\ UNCHANGED << monitoring, np_random >>

\* line 29: self.sdr = RtlSdr() opens a device
InitOpen(c) ==
  /\ ctl[c].pc = "idle"
  /\ opened < MaxHandles
  /\ opened' = opened + 1
  /\ sdr' = opened + 1
  /\ ctl' = Goto(c, "init30")
  /\ UNCHANGED << running, processing_thread, callback, detected_signals,
                  threshold, closed, threads, clock, phase >>
  /\ UNCHANGED << monitoring, np_random >>

\* lines 30-36: sample rate and gain are set; True, or False when the
\* device refuses (self.sdr keeps the handle)
InitConfigure(c) ==
  /\ ctl[c].pc = "init30"
  /\ \E ok \in {"True", "False"} : ctl' = Returns(c, ok)
  /\ UNCHANGED << sdr, running, processing_thread, callback,
                  detected_signals, threshold, opened, closed, threads,
                  clock, phase >>
  /\ UNCHANGED << monitoring, np_random >>

(* ----------------------- set_frequency (38-47) ------------------------- *)
\* without a handle the method falls off its end (None); else the device
\* accepts the frequency (True) or refuses it (False)
SetFrequency(c) ==
  /\ ctl[c].pc = "idle"
  /\ IF sdr = 0
     THEN ctl' = Return(c)
     ELSE \E ok \in {"True", "False"} : ctl' = Returns(c, ok)
  /\ UNCHANGED << sdr, running, processing_thread, callback,
                  detected_signals, threshold, opened, closed, threads,
                  clock, phase >>
  /\ UNCHANGED << monitoring, np_random >>

(* ------------------- clear_detected_signals (148-150) ------------------ *)
ClearDetectedSignals(c) ==
  /\ ctl[c].pc = "idle"
  /\ detected_signals' = <<>>
  /\ ctl' = Return(c)
  /\ UNCHANGED << sdr, running, processing_thread, callback, threshold,
                  opened, closed, threads, clock, phase >>
  /\ UNCHANGED << monitoring, np_random >>

Controller(c) ==
  \/ \E cb \in Callbacks : StartCall(c, cb)
  \/ StartReturnFalse(c)
  \/ StartSetRunning(c)
  \/ StartSetCallback(c)
  \/ StartCreateThread(c)
  \/ StartThread(c)
  \/ StartReturnTrue(c)
  \/ StopCall(c)
  \/ StopJoinBegin(c)
  \/ StopJoin(c)
  \/ StopClose(c)
  \/ StopClear(c)
  \/ InitOpenFail(c)
  \/ InitOpen(c)
  \/ InitConfigure(c)
  \/ SetFrequency(c)
  \/ ClearDetectedSignals(c)

Next ==
  \/ \E c \in Controllers : Controller(c)
  \/ \E t \in 1..MaxThreads : Loop(t)

Spec == Init /\ [][Next]_vars

(* ------------------------------ scheduling ----------------------------- *)
\* the calls that open the device and start and stop the monitor
Lifecycle(c) ==
  \/ \E cb \in Callbacks : StartCall(c, cb)
  \/ StartReturnFalse(c)
  \/ StartSetRunning(c)
  \/ StartSetCallback(c)
  \/ StartCreateThread(c)
  \/ StartThread(c)
  \/ StartReturnTrue(c)
  \/ StopCall(c)
  \/ StopJoinBegin(c)
  \/ StopJoin(c)
  \/ StopClose(c)
  \/ StopClear(c)
  \/ InitOpen(c)
  \/ InitConfigure(c)

NextLive ==
  \/ \E c \in Controllers : Lifecycle(c)
  \/ \E t \in 1..MaxThreads : Loop(t)

StopSteps(c) ==
  \/ StopJoinBegin(c)
  \/ StopJoin(c)
  \/ StopClose(c)
  \/ StopClear(c)

\* started threads keep being scheduled, and read_samples and the sink
\* return or raise; a stop_processing call that was entered runs on
Fairness ==
  /\ WF_vars(\E t \in 1..MaxThreads : Loop(t))
  /\ \A c \in Controllers : WF_vars(StopSteps(c))

SpecLive == Init /\ [][NextLive]_vars /\ Fairness

(* --------------------- get_detected_signals (144-146) ------------------ *)
\* line 146 returns self.detected_signals, the list object the loop appends
\* to; the caller then works with it (gui.generate_report hands it to the
\* report generator, lines 226-230) until it drops the reference
GetDetectedSignals(c) ==
  /\ ctl[c].pc = "idle"
  /\ ctl' = [ctl EXCEPT ![c] = [@ EXCEPT !.pc = "holding",
                                         !.view = detected_signals]]
  /\ UNCHANGED << sdr, running, processing_thread, callback,
                  detected_signals, threshold, opened, closed, threads,
                  clock, phase >>
  /\ UNCHANGED << monitoring, np_random >>

ReleaseView(c) ==
  /\ ctl[c].pc = "holding"
  /\ ctl' = Return(c)
  /\ UNCHANGED << sdr, running, processing_thread, callback,
                  detected_signals, threshold, opened, closed, threads,
                  clock, phase >>
  /\ UNCHANGED << monitoring, np_random >>

\* what the caller finds in the returned list now: the list is the store's
\* own object, and the caller, busy with it, has not rebound the store
ViewContents(c) == detected_signals

NextReads ==
  \/ Next
  \/ \E c \in Controllers : GetDetectedSignals(c)
  \/ \E c \in Controllers : ReleaseView(c)

SpecReads == Init /\ [][NextReads]_vars

(* ------------------- simulate_miner_signal (152-171) ------------------- *)
\* the number of noise vectors the model's generator tells apart
RngPeriod == 3 ^ SpectrumLen

\* np.random.normal(0, 0.1, n) as the k-th draw from the global generator:
\* a vector of small deviations, a different one for each k
Noise(k) ==
  [i \in 1..SpectrumLen |-> ((k \div (3 ^ (i - 1))) % 3) - 1]

\* lines 159-164: the two sinusoids, the second at half the amplitude (per
\* bin, in the units of Blocks)
Tones ==
  [i \in 1..SpectrumLen |-> IF i = 2 THEN 6 ELSE IF i = 4 THEN 3 ELSE 0]

\* lines 152-171: the method takes no seed; it draws the noise from the
\* global generator, which moves on, and returns _compute_fft(signal)
SimulateMinerSignal(c) ==
  /\ ctl[c].pc = "idle"
  /\ ctl' = [ctl EXCEPT ![c].sim =
               ComputeFft([i \in 1..SpectrumLen |->
                             Tones[i] + Noise(np_random)[i]])]
  /\ np_random' = (np_random + 1) % RngPeriod
  /\ UNCHANGED << sdr, running, processing_thread, callback,
                  detected_signals, threshold, opened, closed, threads,
                  clock, phase, monitoring >>

NextSim == \E c \in Controllers : SimulateMinerSignal(c)

SpecSim == Init /\ [][NextSim]_vars

(* ------------------ one analysis pass on chosen spectra ---------------- *)
\* np.fft.ifftshift: the block (in FFT order) whose centred spectrum is x
IfftShift(x) ==
  LET n == Len(x)
  IN  [i \in 1..n |-> x[((i - 1 + (n \div 2)) % n) + 1]]

\* config['alert']['threshold']['power'] values of either sign
PeakThresholds == {-2, 3}

\* dB values around a threshold: below it, equal to it, above it by less
\* than abs(threshold), by abs(threshold) and by more
Levels(th) ==
  LET a == IF th < 0 THEN -th ELSE th
  IN  {th - 1, th, th + 1, th + a - 1, th + a, th + a + 1}

\* spectra long enough for two peaks find_peaks keeps apart: a floor below
\* the threshold with a spike at bin 2 and one 19 or 20 bins further
WideLen == PeakDistance + 3

WideSpectra(th) ==
  { [i \in 1..WideLen |-> IF i = 2 THEN a
                          ELSE IF i = 2 + d THEN b
                          ELSE th - 1] :
      a \in Levels(th), b \in Levels(th),
      d \in {PeakDistance - 1, PeakDistance} }

\* every spectrum of SpectrumLen bins over the levels, and the wide ones
Spectra(th) == [1..SpectrumLen -> Levels(th)] \cup WideSpectra(th)

\* the loop thread has read a block and is about to analyse it
InitPeaks ==
  /\ sdr = 1
  /\ running = TRUE
  /\ processing_thread = 1
  /\ callback = NoCallback
  /\ detected_signals = <<>>
  /\ threshold \in PeakThresholds
  /\ opened = 1
  /\ closed = {}
  /\ \E x \in Spectra(threshold) :
       threads = << [NewThread EXCEPT !.pc = "analyze",
                                      !.block = IfftShift(x)] >>
  /\ ctl = [c \in Callers |-> IdleCtl]
  /\ clock = 0
  /\ phase = "started"
  /\ monitoring = TRUE
  /\ np_random = 0

NextPeaks == \E t \in 1..MaxThreads : Analyze(t)

SpecPeaks == InitPeaks /\ [][NextPeaks]_vars

(* ------------- the engine called from more than one thread ------------- *)
\* start_processing and stop_processing take no lock, so calls of two
\* threads interleave line by line
StartStop(c) ==
  \/ \E cb \in Callbacks : StartCall(c, cb)
  \/ StartReturnFalse(c)
  \/ StartSetRunning(c)
  \/ StartSetCallback(c)
  \/ StartCreateThread(c)
  \/ StartThread(c)
  \/ StartReturnTrue(c)
  \/ StopCall(c)
  \/ StopJoinBegin(c)
  \/ StopJoin(c)
  \/ StopRaise(c)
  \/ StopClose(c)
  \/ StopClear(c)

\* the state after a successful initialize_sdr (lines 29-33)
InitMT ==
  /\ sdr = 1
  /\ running = FALSE
  /\ processing_thread = 0
  /\ callback = NoCallback
  /\ detected_signals = <<>>
  /\ threshold \in Thresholds
  /\ opened = 1
  /\ closed = {}
  /\ threads = <<>>
  /\ ctl = [c \in Callers |-> IdleCtl]
  /\ clock = 0
  /\ phase = "fresh"
  /\ monitoring = FALSE
  /\ np_random = 0

NextMT ==
  \/ \E c \in Callers : StartStop(c)
  \/ \E t \in 1..MaxThreads : Loop(t)

SpecMT == InitMT /\ [][NextMT]_vars

(* ============================== claims ================================= *)
StartPcs == {"start52", "start54", "start55", "start56", "start58", "start59"}
StopPcs  == {"stop64", "join", "stop66", "stop68", "stop_raised"}

\* thread t takes a step
Steps(t) == t \in ThreadIds /\ threads'[t] # threads[t]

\* the store keeps its entries and their order, and may grow at its end
StoreExtended ==
  /\ Len(detected_signals') >= Len(detected_signals)
  /\ SubSeq(detected_signals', 1, Len(detected_signals)) = detected_signals

HasPeaks(block) ==
  FindPeaks(ComputeFft(block).power, threshold, PeakDistance) # <<>>

(* C1: start_processing called while the monitor is running returns False *)
(* (line 52) and changes nothing: no thread is created, and callback,     *)
(* processing_thread, sdr, detected_signals and running keep their values. *)
C1_StartWhileRunningIsNoOp ==
  [][\A c \in Controllers :
       /\ ( ctl[c].pc = "idle" /\ ctl'[c].pc \in StartPcs /\ running )
            => /\ ctl'[c].pc = "start52"
               /\ UNCHANGED << callback, processing_thread, sdr,
                               detected_signals, running, threads >>
       /\ ( ctl[c].pc = "start52" /\ ctl'[c] # ctl[c] )
            => /\ ctl'[c].pc = "idle"
               /\ UNCHANGED << callback, processing_thread, sdr,
                               detected_signals, running, threads >>
  ]_vars

\* start_processing(cb) was refused while a loop thread runs with another
\* callback registered
C1_Witness ==
  /\ ctl["gui"].pc = "start52"
  /\ ctl["gui"].cb # callback
  /\ running
  /\ \E t \in ThreadIds : InLoop(t)

(* C2: once stop_processing has returned, the loop thread it joined has   *)
(* terminated and no thread is inside the loop; until the next start no   *)
(* thread steps in the loop, no event is created or appended to the store *)
(* and no sink is called.                                                 *)
C2_StopHasJoinSemantics ==
  [][ /\ phase' = "stopped"
         => /\ \A t \in 1..Len(threads') : ~InLoop(t)'
            /\ processing_thread' # 0
                 => threads'[processing_thread'].pc = "done"
      /\ ( phase = "stopped" /\ phase' = "stopped" )
         => /\ \A t \in ThreadIds :
                 Steps(t) => threads[t].pc = "exit" /\ threads'[t].pc = "done"
            /\ Len(detected_signals') <= Len(detected_signals)
            /\ clock' = clock
  ]_vars

\* stop_processing returned after a run in which events were stored
C2_Witness ==
  /\ phase = "stopped"
  /\ ctl["gui"].pc = "idle"
  /\ processing_thread # 0
  /\ Len(detected_signals) >= 1

(* C3: stop_processing called while the monitor is idle (never started,   *)
(* stopped, or ended by a source failure) never raises, leaves the        *)
(* monitor idle at every step and leaves detected_signals and callback    *)
(* unchanged.                                                             *)
C3_StopWhileIdleIsNoOp ==
  [][\A c \in Controllers :
       ( \/ ctl[c].pc = "idle" /\ ctl'[c].pc \in StopPcs /\ Idle
         \/ ctl[c].pc \in StopPcs /\ ctl[c].wasIdle /\ ctl'[c] # ctl[c] )
       => /\ Idle'
          /\ ctl'[c].pc # "stop_raised"
          /\ UNCHANGED << detected_signals, callback >>
  ]_vars

\* a stop_processing call made after the loop ended on a source failure is
\* about to close the handle
C3_Witness ==
  /\ ctl["gui"].pc = "stop66"
  /\ ctl["gui"].wasIdle
  /\ phase = "source_error"
  /\ sdr # 0
  /\ Len(detected_signals) >= 1

(* C4: while a loop thread runs with a callback registered, the events it *)
(* passed to the callback are the events it appended to the store, in the *)
(* same order, each once; only the event of the pass in progress may not  *)
(* have been passed yet.                                                  *)
C4_SinkGetsEveryEventOnceInOrder ==
  \A t \in ThreadIds :
    ( InLoop(t) /\ callback # NoCallback )
    => IF threads[t].pc \in {"test", "call"} /\ threads[t].detected # NoEvent
       THEN threads[t].appended =
              Append(threads[t].delivered, threads[t].detected.timestamp)
       ELSE threads[t].appended = threads[t].delivered

\* a loop thread has passed two events to its sink
C4_Witness ==
  \E t \in ThreadIds :
    /\ InLoop(t)
    /\ callback # NoCallback
    /\ Len(threads[t].delivered) = 2
    /\ threads[t].pc = "check"

(* C5: a step either leaves the store as it is, or appends at its end, or *)
(* is clear_detected_signals; and an analysis pass that finds a peak      *)
(* appends exactly one event, also when its peaks equal those of the last *)
(* event stored.                                                          *)
C5_StoreIsAppendOnly ==
  [][ /\ \/ StoreExtended /\ Len(detected_signals') <= Len(detected_signals) + 1
         \/ \E c \in Controllers : ClearDetectedSignals(c)
      /\ \A t \in ThreadIds :
           ( threads[t].pc = "analyze" /\ Steps(t) /\ HasPeaks(threads[t].block) )
           => /\ StoreExtended
              /\ Len(detected_signals') = Len(detected_signals) + 1
  ]_vars

\* two events with the same peaks are stored one after the other
C5_Witness ==
  /\ Len(detected_signals) = 2
  /\ detected_signals[1].frequencies = detected_signals[2].frequencies
  /\ detected_signals[1].powers = detected_signals[2].powers
  /\ detected_signals[1] # detected_signals[2]

(* C6: an analysis pass that finds no peak creates no event, leaves the   *)
(* store unchanged and calls no sink: the thread is back at the loop test *)
(* exactly as it was before the pass, and every other variable is         *)
(* unchanged.                                                             *)
C6_QuietPassLeavesNoState ==
  [][\A t \in ThreadIds :
       /\ ( threads[t].pc = "analyze" /\ Steps(t) /\ ~HasPeaks(threads[t].block) )
          => /\ threads'[t] = [threads[t] EXCEPT !.pc = "test", !.block = <<>>]
             /\ threads'[t].detected = NoEvent
             /\ UNCHANGED << sdr, running, processing_thread, callback,
                             detected_signals, threshold, opened, closed,
                             ctl, clock, phase >>
       /\ ( threads[t].pc = "test" /\ Steps(t) /\ threads[t].detected = NoEvent )
          => /\ threads'[t] = [threads[t] EXCEPT !.pc = "check"]
             /\ threads'[t].h = 0 /\ threads'[t].block = <<>>
             /\ UNCHANGED << sdr, running, processing_thread, callback,
                             detected_signals, threshold, opened, closed,
                             ctl, clock, phase >>
  ]_vars

\* a pass without peaks has ended in a run that has a sink and has already
\* stored an event
C6_Witness ==
  \E t \in ThreadIds :
    /\ threads[t].pc = "test"
    /\ threads[t].detected = NoEvent
    /\ callback # NoCallback
    /\ running
    /\ Len(threads[t].appended) >= 1

(* C7: an exception raised by the sink callback does not end the run: the *)
(* step that handles it leaves running set and takes the thread back to   *)
(* the loop test.                                                         *)
C7_SinkErrorIsNotFatal ==
  [][\A t \in ThreadIds :
       ( threads[t].raised = "sink" /\ Steps(t) )
       => /\ running' = running
          /\ threads'[t].pc = "check"
  ]_vars

last_error == "none"

(* C9: in every state in which the run was ended by a source error, the   *)
(* last-error value holds that error.                                     *)
C9_LastErrorRecorded ==
  phase = "source_error" => last_error = "source"

(* C10: the loop is left only at the loop test with running cleared, or   *)
(* through the exception handler: a block that is being read or was read  *)
(* is analysed, its event stored and passed to the sink whatever the      *)
(* value of running; and the handle of a read in progress is not closed.  *)
C10_CancellationOnlyAtLoopTest ==
  [][\A t \in ThreadIds :
      /\ threads'[t].pc = "reading" => threads'[t].h \notin closed'
      /\ Steps(t) =>
         /\ ( threads'[t].pc = "exit" /\ threads[t].pc # "exit" )
              => \/ threads[t].pc = "check" /\ ~running
                 \/ threads[t].pc = "except"
         /\ threads[t].pc = "reading"
              => threads'[t].pc \in {"analyze", "except"}
         /\ threads[t].pc = "analyze"
              => /\ threads'[t].pc = "test"
                 /\ HasPeaks(threads[t].block)
                      => /\ threads'[t].detected # NoEvent
                         /\ detected_signals' =
                              Append(detected_signals, threads'[t].detected)
         /\ ( threads[t].pc = "test" /\ threads[t].detected # NoEvent
              /\ callback # NoCallback )
              => threads'[t].pc = "call"
         /\ ( threads[t].pc = "call" /\ callback # NoCallback )
              => /\ threads'[t].pc = "insink"
                 /\ threads'[t].delivered =
                      Append(threads[t].delivered, threads[t].detected.timestamp)
  ]_vars

\* stop_processing waits in join() while the thread, with running cleared,
\* is inside the sink with the event of its last block
C10_Witness ==
  /\ ctl["gui"].pc = "join"
  /\ ~running
  /\ \E t \in ThreadIds :
       /\ t = ctl["gui"].j
       /\ threads[t].pc = "insink"
       /\ detected_signals # <<>>
       /\ detected_signals[Len(detected_signals)] = threads[t].detected

(* C11: the handle is touched by the loop thread only: no step of a       *)
(* controller call (initialize_sdr, set_frequency, stop_processing) opens *)
(* a handle, closes one or rebinds self.sdr.                              *)
C11_HandleOwnedByLoop ==
  [][\A c \in Controllers :
       ctl'[c] # ctl[c] => UNCHANGED << sdr, opened, closed >>
  ]_vars

(* C12: the list get_detected_signals returned does not change while the  *)
(* caller holds it: its contents stay what they were at the return, a     *)
(* prefix of the store.                                                   *)
C12_ViewIsStableSnapshot ==
  \A c \in Controllers :
    ctl[c].pc = "holding" => ViewContents(c) = ctl[c].view

\* a stop_processing call is past line 63 and the loop thread has not left
\* the loop
StopInProgress ==
  /\ \E d \in Callers : ctl[d].pc \in {"stop64", "join"}
  /\ \E t \in ThreadIds : InLoop(t)

(* C13: while a stop_processing call is in progress and the loop thread   *)
(* has not yet exited, the monitor does not pass for idle: a              *)
(* start_processing call made then is refused (return False, line 52) and *)
(* begins no new run.                                                     *)
C13_NoStartWhileStopping ==
  [][\A c \in Callers :
       ( ctl[c].pc = "idle" /\ ctl'[c].pc \in StartPcs /\ StopInProgress )
         => ctl'[c].pc = "start52"
  ]_vars

(* C14: whatever the interleaving of start_processing and stop_processing *)
(* calls with the loop, at most one thread is inside _processing_loop, so *)
(* no two reads, appends or sink calls of one engine overlap.             *)
C14_AtMostOneLoop ==
  Cardinality({ t \in ThreadIds : InLoop(t) }) <= 1

\* the open handle self.sdr is bound to, if any
HeldOpen == IF sdr # 0 /\ sdr \notin closed THEN {sdr} ELSE {}

\* open handles the engine has no reference to any more
Dropped == { h \in 1..opened : h # sdr /\ h \notin closed }

OpenHandles == HeldOpen \cup Dropped

(* C15: stop_processing releases the handle and start/stop cycles leak    *)
(* none: when stop_processing returns, self.sdr is None and no handle is  *)
(* open but those dropped before the call; a handle is dropped only by    *)
(* initialize_sdr rebinding self.sdr over an open handle, never by a step *)
(* of start_processing or stop_processing, so that with no such call zero *)
(* handles are open after stop and at most one while running; and close() *)
(* is called only when the joined thread has terminated and no thread is  *)
(* inside the loop.                                                       *)
C15_StopReleasesHandle ==
  [][ /\ Dropped' # Dropped
         => \E c \in Controllers :
              /\ ctl[c].pc = "idle" /\ ctl'[c].pc = "init30"
              /\ HeldOpen # {}
      /\ ( \E c \in Controllers :
             ctl[c].pc \in StopPcs /\ ctl'[c].pc = "idle" )
         => /\ sdr' = 0
            /\ OpenHandles' = Dropped
      /\ ( running' /\ Dropped' = {} ) => Cardinality(OpenHandles') <= 1
      /\ closed' # closed
         => /\ \A t \in ThreadIds : ~InLoop(t)
            /\ processing_thread # 0
                 => threads[processing_thread].pc = "done"
  ]_vars

\* two start/stop cycles, each on a handle of its own, have ended: both
\* handles are closed and none is open
C15_Witness ==
  /\ phase = "stopped"
  /\ ctl["gui"].pc = "idle"
  /\ Len(threads) = 2
  /\ sdr = 0
  /\ closed = {1, 2}
  /\ OpenHandles = {}

(* C16: when stop_processing is called while the monitor is running, and  *)
(* the loop thread is scheduled and its reads and sink calls return, the  *)
(* loop thread terminates, stop_processing returns and the monitor is     *)
(* idle.                                                                  *)
C16_StopTerminates ==
  \A c \in Controllers :
    ( ctl[c].pc = "stop64" /\ ~ctl[c].wasIdle )
      ~> ( ctl[c].pc = "idle" /\ phase = "stopped" /\ Idle
           /\ \A t \in ThreadIds :
                t = processing_thread => threads[t].pc = "done" )

\* stop_processing is waiting in join() for a thread that is inside the
\* sink
C16_Witness ==
  /\ ctl["gui"].pc = "join"
  /\ ~ctl["gui"].wasIdle
  /\ threads[ctl["gui"].j].pc = "insink"

(* C17: every peak recorded in a detection has a power strictly greater   *)
(* than the threshold (a bin at the threshold gives no detection).        *)
C17_ThresholdIsStrict ==
  \A i \in 1..Len(detected_signals) :
    \A k \in 1..Len(detected_signals[i].powers) :
      detected_signals[i].powers[k] > threshold

\* the bins of spectrum x that stand out: above the threshold and above
\* both neighbours
SharpPeaks(x) ==
  { i \in 2..(Len(x) - 1) :
      x[i] > threshold /\ x[i - 1] < x[i] /\ x[i + 1] < x[i] }

(* C18: when a spectrum has exactly two peaks above the threshold, fewer  *)
(* than the minimum separation apart, and every other bin lies below the  *)
(* threshold, the detection holds exactly one peak: the one of higher     *)
(* power, and of two equal powers the one at the lower bin.               *)
C18_ClosePeaksCollapse ==
  [][\A t \in ThreadIds :
       ( threads[t].pc = "analyze" /\ threads'[t].pc = "test" )
       => LET fft_result == ComputeFft(threads[t].block)
              x == fft_result.power
          IN  \A p, q \in SharpPeaks(x) :
                ( /\ p < q
                  /\ q - p < PeakDistance
                  /\ \A i \in 1..Len(x) : i \in {p, q} \/ x[i] < threshold )
                => LET s == IF x[p] >= x[q] THEN p ELSE q
                   IN  /\ threads'[t].detected.powers = << x[s] >>
                       /\ threads'[t].detected.frequencies
                            = << fft_result.frequencies[s] >>
  ]_vars

\* comparison of two fractions with positive denominators
Less(a, b) == a[1] * b[2] < b[1] * a[2]

LessEq(a, b) == a[1] * b[2] <= b[1] * a[2]

Abs(v) == IF v < 0 THEN -v ELSE v

(* C19: the confidence of every stored detection lies in [0, 1] and is    *)
(* (mean of its powers - threshold) / |threshold| clamped to [0, 1]: 0    *)
(* when the quotient is not positive, 1 when it is 1 or more, else the    *)
(* quotient itself.                                                       *)
C19_ConfidenceIsClampedQuotient ==
  \A i \in 1..Len(detected_signals) :
    LET e   == detected_signals[i]
        n   == Len(e.powers)
        num == SumSeq(e.powers) - n * threshold
        den == n * Abs(threshold)
        c   == e.confidence
    IN  /\ n >= 1
        /\ c[2] > 0
        /\ 0 <= c[1] /\ c[1] <= c[2]
        /\ num <= 0 => c[1] = 0
        /\ num >= den => c[1] = c[2]
        /\ ( 0 < num /\ num < den ) => c[1] * den = num * c[2]

\* a detection with two peaks under a negative threshold whose confidence
\* lies strictly between 0 and 1
C19_Witness ==
  /\ threshold < 0
  /\ detected_signals # <<>>
  /\ Len(detected_signals[1].powers) = 2
  /\ Less(<<0, 1>>, detected_signals[1].confidence)
  /\ Less(detected_signals[1].confidence, <<1, 1>>)

\* the sets of one or two peak powers find_peaks can accept
PeakPowers(th) ==
  LET ok == { v \in Levels(th) : v >= th }
  IN  { <<v>> : v \in ok } \cup { <<v, w>> : v \in ok, w \in ok }

\* the means of a and b are above the threshold, that of a below that of b
MeanBelow(a, b) ==
  /\ SumSeq(a) > Len(a) * threshold
  /\ SumSeq(b) > Len(b) * threshold
  /\ SumSeq(a) * Len(b) < SumSeq(b) * Len(a)

(* C20 as stated: with the threshold fixed, of a stored detection and any *)
(* accepted set of peak powers, both with a mean above the threshold, the *)
(* one with the lower mean has the strictly lower confidence.             *)
C20_ConfidenceStrictlyIncreases ==
  \A i \in 1..Len(detected_signals) :
    \A ps \in PeakPowers(threshold) :
      LET e == detected_signals[i]
          c == CalculateConfidence(ps, threshold)
      IN  /\ MeanBelow(e.powers, ps) => Less(e.confidence, c)
          /\ MeanBelow(ps, e.powers) => Less(c, e.confidence)

(* C20 amended: the confidence never decreases with the mean, and it      *)
(* increases strictly as long as the lower of the two confidences is      *)
(* below 1, i.e. the lower mean is less than |threshold| above the        *)
(* threshold.                                                             *)
C20_ConfidenceIncreasesUntilSaturation ==
  \A i \in 1..Len(detected_signals) :
    \A ps \in PeakPowers(threshold) :
      LET e == detected_signals[i]
          c == CalculateConfidence(ps, threshold)
      IN  /\ MeanBelow(e.powers, ps)
               => /\ LessEq(e.confidence, c)
                  /\ Less(e.confidence, <<1, 1>>) => Less(e.confidence, c)
          /\ MeanBelow(ps, e.powers)
               => /\ LessEq(c, e.confidence)
                  /\ Less(c, <<1, 1>>) => Less(c, e.confidence)

\* a detection of two peaks with a mean between the levels, above the
\* threshold and short of saturation
C20_Witness ==
  /\ threshold > 0
  /\ detected_signals # <<>>
  /\ Len(detected_signals[1].powers) = 2
  /\ detected_signals[1].powers[1] # detected_signals[1].powers[2]
  /\ Less(<<0, 1>>, detected_signals[1].confidence)
  /\ Less(detected_signals[1].confidence, <<1, 1>>)

(* C21: the self-test generator is deterministic: once it has returned a  *)
(* spectrum, every later invocation under the same configuration returns  *)
(* the same spectrum, and no invocation reads or advances the global      *)
(* random generator.                                                      *)
C21_SimulationIsDeterministic ==
  [][ /\ np_random' = np_random
      /\ \A c \in Controllers :
           ctl[c].sim # NoSpectrum => ctl'[c].sim = ctl[c].sim
  ]_vars

\* the positions of spectrum fft_result at which the peaks of detection e
\* were reported (every frequency of the axis occurs once)
ReportedAt(fft_result, e) ==
  { i \in 1..Len(fft_result.frequencies) :
      \E j \in 1..Len(e.frequencies) :
         e.frequencies[j] = fft_result.frequencies[i] }

(* C22: in the spectrum computed from a block, frequencies[i] is the      *)
(* frequency of the FFT bin whose power stands at power[i], for every i   *)
(* (bin k of the block has frequency fftfreq[k]); and the frequency       *)
(* reported with a peak is that of the bin its power was measured in.     *)
C22_FrequencyAxisFollowsPower ==
  [][\A t \in ThreadIds :
       ( threads[t].pc = "analyze" /\ threads'[t].pc = "test" )
       => LET block == threads[t].block
              fft_result == ComputeFft(block)
              e == threads'[t].detected
          IN  /\ \A i \in 1..Len(fft_result.power) :
                   \E k \in 1..Len(block) :
                      /\ block[k] = fft_result.power[i]
                      /\ FftFreq(Len(block))[k] = fft_result.frequencies[i]
              /\ \A j \in 1..Len(e.powers) :
                   \E k \in 1..Len(block) :
                      /\ block[k] = e.powers[j]
                      /\ FftFreq(Len(block))[k] = e.frequencies[j]
  ]_vars

(* C23: the spectrum computed from a block of N samples has N powers and  *)
(* N frequencies, and its frequencies never decrease with the index.      *)
C23_FrequencyAxisIsMonotone ==
  [][\A t \in ThreadIds :
       ( threads[t].pc = "analyze" /\ threads'[t].pc = "test" )
       => LET fft_result == ComputeFft(threads[t].block)
              n == Len(threads[t].block)
          IN  /\ Len(fft_result.power) = n
              /\ Len(fft_result.frequencies) = n
              /\ \A i \in 1..n : \A j \in i..n :
                   fft_result.frequencies[i] <= fft_result.frequencies[j]
  ]_vars

\* values the option minimumPeakSeparation can be configured with
MinimumPeakSeparations == {1, 2, PeakDistance}

(* C24: for every configured minimumPeakSeparation, any two peaks of a    *)
(* detection are more than that many bins apart, and a peak above the     *)
(* threshold that is farther than that from every reported peak is        *)
(* reported itself.                                                       *)
C24_SeparationIsConfigured ==
  [][\A t \in ThreadIds :
       ( threads[t].pc = "analyze" /\ threads'[t].pc = "test" )
       => LET fft_result == ComputeFft(threads[t].block)
              acc == ReportedAt(fft_result, threads'[t].detected)
          IN  \A sep \in MinimumPeakSeparations :
                /\ \A p \in acc : \A q \in acc :
                     p < q => q - p > sep
                /\ \A c \in SharpPeaks(fft_result.power) :
                     ( \A a \in acc : Abs(c - a) > sep ) => c \in acc
  ]_vars

(* C25: when the first or the last bin of a spectrum is above the         *)
(* threshold and every other bin is below it, the detection reports that  *)
(* boundary bin as its one peak.                                          *)
C25_BoundaryBinsCanBePeaks ==
  [][\A t \in ThreadIds :
       ( threads[t].pc = "analyze" /\ threads'[t].pc = "test" )
       => LET fft_result == ComputeFft(threads[t].block)
              x == fft_result.power
          IN  \A b \in {1, Len(x)} :
                ( /\ x[b] > threshold
                  /\ \A i \in 1..Len(x) : i = b \/ x[i] < threshold )
                => /\ threads'[t].detected.powers = << x[b] >>
                   /\ threads'[t].detected.frequencies
                        = << fft_result.frequencies[b] >>
  ]_vars

\* the last element of the store (NoEvent when the store is empty)
LastStored ==
  IF detected_signals = <<>> THEN NoEvent
  ELSE detected_signals[Len(detected_signals)]

(* C26: a pass that finds peaks appends its event to the store, whether   *)
(* or not a sink is registered; whenever the sink is invoked, the event   *)
(* it receives is the last element of the store; and the event stays      *)
(* stored when the sink raises.                                           *)
C26_EventIsLastWhenSinkRuns ==
  [][\A t \in ThreadIds :
       /\ ( threads[t].pc = "analyze" /\ threads'[t].pc = "test"
            /\ HasPeaks(threads[t].block) )
          => /\ threads'[t].detected # NoEvent
             /\ detected_signals'
                  = Append(detected_signals, threads'[t].detected)
       /\ ( threads[t].pc = "call" /\ threads'[t].pc = "insink" )
          => LastStored = threads[t].detected
       /\ ( threads[t].pc = "insink" /\ threads'[t].pc = "except" )
          => /\ detected_signals' = detected_signals
             /\ LastStored = threads[t].detected
  ]_vars

(* C26 (amended): a pass that finds peaks appends its event to the store, *)
(* whether or not a sink is registered; whenever the sink is invoked, the *)
(* event it receives was appended by this thread as its latest one, and   *)
(* it is the last element of the store unless clear_detected_signals has  *)
(* emptied the store since; a raising sink leaves the store as it is.     *)
C26_EventStoredBeforeSink ==
  [][\A t \in ThreadIds :
       /\ ( threads[t].pc = "analyze" /\ threads'[t].pc = "test"
            /\ HasPeaks(threads[t].block) )
          => /\ threads'[t].detected # NoEvent
             /\ detected_signals'
                  = Append(detected_signals, threads'[t].detected)
       /\ ( threads[t].pc = "call" /\ threads'[t].pc = "insink" )
          => /\ threads[t].appended # <<>>
             /\ threads[t].appended[Len(threads[t].appended)]
                  = threads[t].detected.timestamp
             /\ detected_signals = <<>> \/ LastStored = threads[t].detected
       /\ ( threads[t].pc = "insink" /\ threads'[t].pc = "except" )
          => /\ detected_signals' = detected_signals
             /\ detected_signals = <<>> \/ LastStored = threads[t].detected
  ]_vars

\* the sink has raised on an event that is the last element of the store
C26_Witness ==
  \E t \in ThreadIds :
     /\ threads[t].pc = "except"
     /\ threads[t].raised = "sink"
     /\ threads[t].detected # NoEvent
     /\ LastStored = threads[t].detected

(* ------------- gui.DetectorGUI.toggle_monitoring (171-203) ------------- *)
\* toggle_monitoring is at the engine call of this stage, which has not
\* returned
InToggle(c, stage) == ctl[c].toggle = stage /\ ctl[c].ret = NoReturn

\* toggle_monitoring moves on to the engine call of stage ("none": it
\* returns)
Stage(c, stage) ==
  [ctl EXCEPT ![c] = [@ EXCEPT !.toggle = stage, !.ret = NoReturn]]

\* lines 173-176, 196-200: the button is pressed; when not monitoring the
\* frequency field is parsed (ValueError: an error box, nothing else), when
\* monitoring stop_processing is called
ToggleBegin(c) ==
  /\ ctl[c].pc = "idle"
  /\ ctl[c].toggle = "none"
  /\ IF ~monitoring
     THEN \E valid \in BOOLEAN :
            ctl' = IF valid THEN Stage(c, "init") ELSE ctl
     ELSE ctl' = Stage(c, "stop")
  /\ UNCHANGED << sdr, running, processing_thread, callback,
                  detected_signals, threshold, opened, closed, threads,
                  clock, phase, monitoring, np_random >>

\* lines 179-182: if not initialize_sdr(): error box, return
ToggleAfterInit(c) ==
  /\ ctl[c].toggle = "init"
  /\ ctl[c].ret # NoReturn
  /\ ctl' = Stage(c, IF ctl[c].ret = "True" THEN "freq" ELSE "none")
  /\ UNCHANGED << sdr, running, processing_thread, callback,
                  detected_signals, threshold, opened, closed, threads,
                  clock, phase, monitoring, np_random >>

\* lines 185-188: if not set_frequency(freq): error box, return
ToggleAfterFreq(c) ==
  /\ ctl[c].toggle = "freq"
  /\ ctl[c].ret # NoReturn
  /\ ctl' = Stage(c, IF ctl[c].ret = "True" THEN "start" ELSE "none")
  /\ UNCHANGED << sdr, running, processing_thread, callback,
                  detected_signals, threshold, opened, closed, threads,
                  clock, phase, monitoring, np_random >>

\* lines 191-192: start_processing(self.handle_detection) has returned, its
\* value is not looked at: self.monitoring = True (an exception other than
\* ValueError leaves the handler before)
ToggleAfterStart(c) ==
  /\ ctl[c].toggle = "start"
  /\ ctl[c].ret # NoReturn
  /\ ctl' = Stage(c, "none")
  /\ monitoring' = IF ctl[c].ret = "raised" THEN monitoring ELSE TRUE
  /\ UNCHANGED << sdr, running, processing_thread, callback,
                  detected_signals, threshold, opened, closed, threads,
                  clock, phase, np_random >>

\* lines 200-201: stop_processing() has returned: self.monitoring = False
ToggleAfterStop(c) ==
  /\ ctl[c].toggle = "stop"
  /\ ctl[c].ret # NoReturn
  /\ ctl' = Stage(c, "none")
  /\ monitoring' = IF ctl[c].ret = "raised" THEN monitoring ELSE FALSE
  /\ UNCHANGED << sdr, running, processing_thread, callback,
                  detected_signals, threshold, opened, closed, threads,
                  clock, phase, np_random >>

\* the handler with the engine calls it makes, in the order of the code
\* (start_processing never finds the engine running here, so its line 52
\* is not reached)
ToggleMonitoring(c) ==
  \/ ToggleBegin(c)
  \/ InToggle(c, "init") /\ InitOpenFail(c)
  \/ InToggle(c, "init") /\ InitOpen(c)
  \/ InToggle(c, "init") /\ InitConfigure(c)
  \/ ToggleAfterInit(c)
  \/ InToggle(c, "freq") /\ SetFrequency(c)
  \/ ToggleAfterFreq(c)
  \/ InToggle(c, "start") /\ StartCall(c, "sink")
  \/ InToggle(c, "start") /\ StartSetRunning(c)
  \/ InToggle(c, "start") /\ StartSetCallback(c)
  \/ InToggle(c, "start") /\ StartCreateThread(c)
  \/ InToggle(c, "start") /\ StartThread(c)
  \/ InToggle(c, "start") /\ StartReturnTrue(c)
  \/ ToggleAfterStart(c)
  \/ InToggle(c, "stop") /\ StopCall(c)
  \/ InToggle(c, "stop") /\ StopJoinBegin(c)
  \/ InToggle(c, "stop") /\ StopJoin(c)
  \/ InToggle(c, "stop") /\ StopClose(c)
  \/ InToggle(c, "stop") /\ StopClear(c)
  \/ ToggleAfterStop(c)

\* the application: the engine is driven by the monitoring button alone
NextGui ==
  \/ \E c \in Controllers : ToggleMonitoring(c)
  \/ \E t \in 1..MaxThreads : Loop(t)

SpecGui == Init /\ [][NextGui]_vars

(* C27: under the application's toggles at most one device handle is open *)
(* at any time.                                                           *)
C27_AtMostOneOpenHandle == Cardinality(OpenHandles) <= 1

(* C28: whenever no toggle is in progress, the button's monitoring flag   *)
(* is True exactly when the engine is running, also after the loop has    *)
(* ended itself on an error.                                              *)
C28_MonitoringAgreesWithEngine ==
  \A c \in Controllers :
     ctl[c].toggle = "none" => ( monitoring <=> running )

=============================================================================
